---- MODULE Spec2Model ----
(***************************************************************************)
(* Model of youtube_dl/extractor/wdr.py: WDRBaseIE (reference locator and  *)
(* manifest resolver) and WDRIE._real_extract (page orchestrator).         *)
(*                                                                         *)
(* Python dicts are functions whose DOMAIN is the set of keys present, so  *)
(* "k in d" is  k \in DOMAIN d  and d.get(k, x) is Get(d, k, x).  Python's *)
(* None is the string "None".                                              *)
(***************************************************************************)
EXTENDS Integers, Sequences, FiniteSets, TLC

VARIABLES url, webpage, display_id, jsonp_urls, entries, fetched, result, pc

vars == <<url, webpage, display_id, jsonp_urls, entries, fetched, result, pc>>

\* Largest number of tags on a modelled page.
MaxElems == 3
\* Largest number of (variant, role) URLs in a modelled mediaResource.
MaxMedia == 2

None == "None"

Get(d, k, default) == IF k \in DOMAIN d THEN d[k] ELSE default

\* dict.update: the keys of u override those of d.
Update(d, u) == [k \in (DOMAIN d) \cup (DOMAIN u) |-> IF k \in DOMAIN u THEN u[k] ELSE d[k]]

Truthy(v) == v \notin {None, ""}

SeqsUpTo(S, n) == UNION {[1..k -> S] : k \in 0..n}

(***************************************************************************)
(* URL of the page: re.match(_VALID_URL, url).  The pattern is an          *)
(* alternation; the groups of the alternative that did not take part are   *)
(* None.                                                                   *)
(***************************************************************************)
PageUrls ==
    { [host |-> "www1.wdr.de", type |-> "live", name |-> "index"],
      [host |-> "www1.wdr.de", type |-> "sendungen", name |-> "lokalzeit/video-206"],
      [host |-> "www.wdrmaus.de", type |-> None, name |-> "filme/achterbahn"] }

MatchValidUrl(u) ==
    IF u.host = "www.wdrmaus.de"
    THEN [page_url |-> None, type |-> None, display_id |-> None,
          display_id_maus |-> u.name]
    ELSE [page_url |-> "http://www1.wdr.de", type |-> u.type, display_id |-> u.name,
          display_id_maus |-> None]

(***************************************************************************)
(* Media URLs: host, file extension of the path, query string as a         *)
(* sequence of <<key, value>> pairs.  A fetch from host "down" fails.      *)
(***************************************************************************)
Reachable(u) == u.host # "down"

MediaUrl(h, e, q) == [host |-> h, ext |-> e, query |-> q]

\* utils.determine_ext: the text after the last dot of the path (the query
\* is cut off first) if it is alphanumeric, else 'unknown_video'.
determine_ext(u) == IF u.ext = "" THEN "unknown_video" ELSE u.ext

\* compat_parse_qs: ordered dict key -> list of values, blank values dropped.
RECURSIVE parse_qs_acc(_, _)
parse_qs_acc(q, acc) ==
    IF q = <<>> THEN acc
    ELSE LET p == Head(q) IN
         IF p[2] = "" THEN parse_qs_acc(Tail(q), acc)
         ELSE IF \E i \in DOMAIN acc : acc[i].key = p[1]
         THEN parse_qs_acc(Tail(q),
                  [i \in DOMAIN acc |->
                      IF acc[i].key = p[1]
                      THEN [key |-> p[1], vals |-> Append(acc[i].vals, p[2])]
                      ELSE acc[i]])
         ELSE parse_qs_acc(Tail(q), Append(acc, [key |-> p[1], vals |-> <<p[2]>>]))

parse_qs(q) == parse_qs_acc(q, <<>>)

\* qs.update(query): an existing key keeps its place and takes the new value,
\* a new key is added at the end.
RECURSIVE dict_update(_, _)
dict_update(qs, new) ==
    IF new = <<>> THEN qs
    ELSE LET p == Head(new) IN
         IF \E i \in DOMAIN qs : qs[i].key = p[1]
         THEN dict_update([i \in DOMAIN qs |->
                              IF qs[i].key = p[1]
                              THEN [key |-> p[1], vals |-> <<p[2]>>]
                              ELSE qs[i]], Tail(new))
         ELSE dict_update(Append(qs, [key |-> p[1], vals |-> <<p[2]>>]), Tail(new))

\* urlencode(qs, doseq=True): one pair per value.
RECURSIVE urlencode(_)
urlencode(qs) ==
    IF qs = <<>> THEN <<>>
    ELSE LET e == Head(qs) IN
         [i \in 1..Len(e.vals) |-> <<e.key, e.vals[i]>>] \o urlencode(Tail(qs))

update_url_query(u, query) ==
    IF query = <<>> THEN u
    ELSE [u EXCEPT !.query = urlencode(dict_update(parse_qs(u.query), query))]

F4mQuery == << <<"hdcore", "3.2.0">>, <<"plugin", "aasp-3.2.0.77.18">> >>

\* utils.unified_strdate: None stays None, a recognised date becomes
\* YYYYMMDD, anything else becomes None.
unified_strdate(s) ==
    CASE s = "20.05.2017 19:30" -> "20170520"
      [] s = "2017-05-21" -> "20170521"
      [] OTHER -> None

(***************************************************************************)
(* Capabilities of the host framework used by the resolver.                *)
(***************************************************************************)
\* Value of the `fatal` parameter of the framework's fetch helpers when the
\* caller does not pass it.
DefaultFatal == TRUE

\* _extract_m3u8_formats / _extract_f4m_formats / _extract_smil_formats:
\* one candidate per variant on success; on a failed fetch raise if fatal,
\* else no candidate.
ExpandFormats(fid, u, fatal) ==
    IF Reachable(u)
    THEN [raised |-> None, formats |-> <<[url |-> u, format_id |-> fid]>>]
    ELSE IF fatal
         THEN [raised |-> "ExpansionError", formats |-> <<>>]
         ELSE [raised |-> None, formats |-> <<>>]

\* _request_webpage (fatal by default) followed by urlhandle_detect_ext.
ProbeExt(u, fatal) ==
    IF Reachable(u) THEN [raised |-> None, ext |-> "mp4"]
    ELSE IF fatal THEN [raised |-> "ProbeError", ext |-> None]
         ELSE [raised |-> None, ext |-> None]

\* Quality rank used by _sort_formats: candidates of an expanded manifest
\* rank below direct files.
FormatRank(f) == IF "format_id" \in DOMAIN f THEN 0 ELSE 1

RECURSIVE InsertSorted(_, _)
InsertSorted(f, sorted) ==
    IF sorted = <<>> THEN <<f>>
    ELSE IF FormatRank(f) < FormatRank(Head(sorted))
         THEN <<f>> \o sorted
         ELSE <<Head(sorted)>> \o InsertSorted(f, Tail(sorted))

RECURSIVE StableSort(_)
StableSort(fs) ==
    IF fs = <<>> THEN <<>>
    ELSE InsertSorted(fs[Len(fs)], StableSort(SubSeq(fs, 1, Len(fs) - 1)))

\* _sort_formats: raises when there is no candidate at all.
SortFormats(fs) ==
    IF fs = <<>> THEN [raised |-> "NoFormats", formats |-> <<>>]
    ELSE [raised |-> None, formats |-> StableSort(fs)]

\* _download_json(jsonp_url, display_id, transform_source=strip_jsonp)
DownloadJson(resp) ==
    CASE resp.kind = "error" -> [raised |-> "FetchError", doc |-> <<>>]
      [] resp.kind = "garbage" -> [raised |-> "MalformedMetadata", doc |-> <<>>]
      [] OTHER -> [raised |-> None, doc |-> resp.doc]

(***************************************************************************)
(* Format classifier: the dispatch on the extension of one raw media URL.  *)
(* `use` is the operation chosen and the URL handed to it.                 *)
(***************************************************************************)
ClassifyFormat_rawf4m(medium_url) ==
    LET ext == determine_ext(medium_url) IN
    CASE ext = "m3u8" ->
           LET r == ExpandFormats("hls", medium_url, DefaultFatal) IN
           [raised |-> r.raised, formats |-> r.formats,
            use |-> [op |-> "m3u8", url |-> medium_url]]
      [] ext = "f4m" ->
           LET r == ExpandFormats("hds", medium_url, FALSE) IN
           [raised |-> r.raised, formats |-> r.formats,
            use |-> [op |-> "f4m", url |-> medium_url]]
      [] ext = "smil" ->
           LET r == ExpandFormats("smil", medium_url, FALSE) IN
           [raised |-> r.raised, formats |-> r.formats,
            use |-> [op |-> "smil", url |-> medium_url]]
      [] ext = "unknown_video" ->
           LET p == ProbeExt(medium_url, DefaultFatal) IN
           [raised |-> p.raised,
            formats |-> IF p.raised = None
                        THEN <<[url |-> medium_url, ext |-> p.ext]>> ELSE <<>>,
            use |-> [op |-> "probe", url |-> medium_url]]
      [] OTHER ->
           [raised |-> None, formats |-> <<[url |-> medium_url]>>,
            use |-> [op |-> "direct", url |-> medium_url]]

ClassifyFormat(medium_url) ==
    LET ext == determine_ext(medium_url) IN
    CASE ext = "m3u8" ->
           LET r == ExpandFormats("hls", medium_url, DefaultFatal) IN
           [raised |-> r.raised, formats |-> r.formats,
            use |-> [op |-> "m3u8", url |-> medium_url]]
      [] ext = "f4m" ->
           LET manifest_url == update_url_query(medium_url, F4mQuery)
               r == ExpandFormats("hds", manifest_url, FALSE) IN
           [raised |-> r.raised, formats |-> r.formats,
            use |-> [op |-> "f4m", url |-> manifest_url]]
      [] ext = "smil" ->
           LET r == ExpandFormats("smil", medium_url, FALSE) IN
           [raised |-> r.raised, formats |-> r.formats,
            use |-> [op |-> "smil", url |-> medium_url]]
      [] ext = "unknown_video" ->
           LET p == ProbeExt(medium_url, DefaultFatal) IN
           [raised |-> p.raised,
            formats |-> IF p.raised = None
                        THEN <<[url |-> medium_url, ext |-> p.ext]>> ELSE <<>>,
            use |-> [op |-> "probe", url |-> medium_url]]
      [] OTHER ->
           [raised |-> None, formats |-> <<[url |-> medium_url]>>,
            use |-> [op |-> "direct", url |-> medium_url]]

\* The (variant, role) entries the loops of lines 52-58 do not skip.
Accepted(e) == e.kind \in {"dflt", "alt"} /\ e.tag \in {"videoURL", "audioURL"}

\* The two nested loops over mediaResource; stops at the first exception.
RECURSIVE ExtractFormats(_, _)
ExtractFormats(media, acc) ==
    IF media = <<>> \/ acc.raised # None THEN acc
    ELSE LET e == Head(media) IN
         IF ~Accepted(e) THEN ExtractFormats(Tail(media), acc)
         ELSE LET c == ClassifyFormat(e.url) IN
              ExtractFormats(Tail(media),
                  [raised |-> c.raised,
                   formats |-> acc.formats \o c.formats,
                   uses |-> Append(acc.uses, c.use)])

\* Lines 86-92.
Subtitles_anyvalue(mr) ==
    IF "captionURL" \in DOMAIN mr
    THEN "de" :> <<[url |-> mr["captionURL"], ext |-> "ttml"]>>
    ELSE <<>>

Subtitles(mr) ==
    LET caption_url == Get(mr, "captionURL", None) IN
    IF Truthy(caption_url)
    THEN "de" :> <<[url |-> caption_url, ext |-> "ttml"]>>
    ELSE <<>>

\* Line 97.
InfoId_displayonly(td, disp) == disp

InfoId(td, disp) == Get(td, "trackerClipId", disp)

\* Lines 96-104: the returned info dict.  A title is a sequence of text
\* parts so that _live_title can append the time stamp.
InfoDict(td, disp, formats, subtitles) ==
    [id |-> InfoId(td, disp),
     display_id |-> disp,
     title |-> <<td["trackerClipTitle"]>>,
     alt_title |-> Get(td, "trackerClipSubcategory", None),
     formats |-> formats,
     subtitles |-> subtitles,
     upload_date |-> unified_strdate(Get(td, "trackerClipAirTime", None))]

Failed(kind, uses) == [status |-> "raise", error |-> kind, info |-> <<>>, uses |-> uses]

\* WDRBaseIE._extract_wdr_video_from_jsonp_url, given what the network
\* answers for jsonp_url.
ExtractVideo(resp, disp) ==
    LET dl == DownloadJson(resp) IN
    IF dl.raised # None THEN Failed(dl.raised, <<>>)
    ELSE IF "trackerData" \notin DOMAIN dl.doc THEN Failed("MissingField", <<>>)
    ELSE IF "mediaResource" \notin DOMAIN dl.doc THEN Failed("MissingField", <<>>)
    ELSE LET td == dl.doc["trackerData"]
             mr == dl.doc["mediaResource"]
             ex == ExtractFormats(mr["media"],
                       [raised |-> None, formats |-> <<>>, uses |-> <<>>])
         IN
         IF ex.raised # None THEN Failed(ex.raised, ex.uses)
         ELSE LET so == SortFormats(ex.formats) IN
              IF so.raised # None THEN Failed(so.raised, ex.uses)
              ELSE IF "trackerClipTitle" \notin DOMAIN td
                   THEN Failed("MissingField", ex.uses)
                   ELSE [status |-> "ok", error |-> None,
                         info |-> InfoDict(td, disp, so.formats, Subtitles(mr)),
                         uses |-> ex.uses]

(***************************************************************************)
(* The fetched page: its tags in document order and its meta tags.         *)
(*   marker : a tag the pattern of lines 25-27 matches; `json` tells what  *)
(*            its data-extension value is, `ref` the mediaObj url in it    *)
(*   anchor : <a href="..."> with a href of the page URL shape and a       *)
(*            data-extension attribute; `eol` tells whether a line break   *)
(*            follows before the next tag                                  *)
(*   other  : any other tag                                                *)
(* Markers and other tags are followed by a line break.                    *)
(***************************************************************************)
Marker(j, u) == [tag |-> "marker", json |-> j, ref |-> u, href |-> None, eol |-> TRUE]
Anchor(h, nl) == [tag |-> "anchor", json |-> None, ref |-> None, href |-> h, eol |-> nl]
OtherTag == [tag |-> "other", json |-> None, ref |-> None, href |-> None, eol |-> TRUE]

Elements ==
    { Marker("obj", "u1"), Marker("obj", "u2"), Marker("garbage", None),
      Marker("nokey", None),
      Anchor("/mediathek/video/a.html", TRUE), Anchor("/mediathek/video/b.html", TRUE),
      Anchor("/mediathek/video/a.html", FALSE),
      OtherTag }

Metas ==
    { <<>>, "DC.Date" :> "2017-05-21", "Description" :> "text",
      ("DC.Date" :> "2017-05-21") @@ ("Description" :> "text") }

Pages == { [elems |-> e, meta |-> m] : e \in SeqsUpTo(Elements, MaxElems), m \in Metas }

\* _html_search_meta(name, webpage): the content of the meta tag, or None.
HtmlSearchMeta(name, page) == Get(page.meta, name, None)

\* re.findall of lines 25-27: the data-extension values of the markers, in
\* document order.
RECURSIVE FindMarkers_dedup(_)
FindMarkers_dedup(elems) ==
    IF elems = <<>> THEN <<>>
    ELSE LET e == elems[Len(elems)]
             front == SubSeq(elems, 1, Len(elems) - 1) IN
         IF e.tag = "marker" /\ \A i \in DOMAIN front : front[i] # e
         THEN Append(FindMarkers_dedup(front), e)
         ELSE FindMarkers_dedup(front)

FindMarkers(elems) == SelectSeq(elems, LAMBDA e : e.tag = "marker")

\* _parse_json(json, display_id, transform_source=js_to_json) and the
\* lookup ['mediaObj']['url'] of line 36.
ParseMediaLink(m) ==
    CASE m.json = "garbage" -> [raised |-> "MalformedMetadata", url |-> None]
      [] m.json = "nokey" -> [raised |-> "MissingField", url |-> None]
      [] OTHER -> [raised |-> None, url |-> m.ref]

RECURSIVE ParseAll_skipbad(_, _)
ParseAll_skipbad(ms, urls) ==
    IF ms = <<>> THEN [raised |-> None, urls |-> urls]
    ELSE LET r == ParseMediaLink(Head(ms)) IN
         IF r.raised # None THEN ParseAll_skipbad(Tail(ms), urls)
         ELSE ParseAll_skipbad(Tail(ms), Append(urls, r.url))

RECURSIVE ParseAll(_, _)
ParseAll(ms, urls) ==
    IF ms = <<>> THEN [raised |-> None, urls |-> urls]
    ELSE LET r == ParseMediaLink(Head(ms)) IN
         IF r.raised # None THEN [raised |-> r.raised, urls |-> urls]
         ELSE ParseAll(Tail(ms), Append(urls, r.url))

\* WDRBaseIE._extract_wdr_jsonp_urls: None when no marker is found.
ExtractWdrJsonpUrls(page) ==
    LET json_metadata == FindMarkers(page.elems) IN
    IF json_metadata = <<>>
    THEN [raised |-> None, is_none |-> TRUE, urls |-> <<>>]
    ELSE LET r == ParseAll(json_metadata, <<>>) IN
         [raised |-> r.raised, is_none |-> FALSE, urls |-> r.urls]

\* re.findall of lines 223-225.  The display_id group is a greedy `.+` that
\* does not cross a line break: anchors on one line give one match, whose
\* text runs from the first href to the last.  A match is the sequence of
\* the hrefs it spans.
RECURSIVE FindAnchors(_, _)
FindAnchors(elems, cur) ==
    IF elems = <<>> THEN (IF cur = <<>> THEN <<>> ELSE <<cur>>)
    ELSE LET e == Head(elems) IN
         IF e.tag = "anchor"
         THEN IF e.eol
              THEN <<Append(cur, e.href)>> \o FindAnchors(Tail(elems), <<>>)
              ELSE FindAnchors(Tail(elems), Append(cur, e.href))
         ELSE (IF cur = <<>> THEN <<>> ELSE <<cur>>) \o FindAnchors(Tail(elems), <<>>)

\* InfoExtractor.url_result / playlist_result
UrlResult(u, ie) == [url |-> u, ie_key |-> ie] @@ ("_type" :> "url")

PlaylistResult(es, playlist_id) == [entries |-> es, id |-> playlist_id] @@ ("_type" :> "playlist")

Returned(v) == [status |-> "ok", error |-> None, value |-> v]

Raised(kind) == [status |-> "raise", error |-> kind, value |-> <<>>]

NoResult == [status |-> "none", error |-> None, value |-> <<>>]

\* Lines 219-231: no reference on the page.
NoReferencesResult(page, page_url, disp) ==
    LET hrefs == FindAnchors(page.elems, <<>>) IN
    IF hrefs # <<>> /\ page_url = None
    THEN Raised("TypeError")
    ELSE LET es == [i \in 1..Len(hrefs) |->
                        UrlResult([base |-> page_url, path |-> hrefs[i]], "WDR")] IN
         IF es # <<>> THEN Returned(PlaylistResult(es, disp))
         ELSE Raised("NoContent")

\* _live_title: the title followed by the current date and time.
LiveTitle(title) == Append(title, "now")

\* Line 246.
IsLive_never(url_type) == FALSE

IsLive(url_type) == url_type = "live"

\* Lines 246-261: post-processing of the single-item path.
PostProcess(info_dict, url_type, page) ==
    LET is_live == IsLive(url_type)
        d == IF is_live
             THEN Update(info_dict, [title |-> LiveTitle(info_dict["title"]),
                                     upload_date |-> None])
             ELSE IF "upload_date" \notin DOMAIN info_dict
                  THEN Update(info_dict,
                           [upload_date |-> unified_strdate(HtmlSearchMeta("DC.Date", page))])
                  ELSE info_dict
    IN Update(d, [description |-> HtmlSearchMeta("Description", page),
                  is_live |-> is_live])

(***************************************************************************)
(* What the network may answer for a manifest URL.                         *)
(***************************************************************************)
TrackerKeys == {"trackerClipId", "trackerClipTitle", "trackerClipSubcategory",
                "trackerClipAirTime"}

TrackerValues(k) ==
    CASE k = "trackerClipId" -> {"mdb-1378846"}
      [] k = "trackerClipTitle" -> {"Lokalzeit am Samstag"}
      [] k = "trackerClipSubcategory" -> {"Lokalzeit"}
      [] k = "trackerClipAirTime" -> {"20.05.2017 19:30", "soon"}

TrackerDatas ==
    UNION { { f \in [S -> UNION {TrackerValues(k) : k \in TrackerKeys}] :
                \A k \in S : f[k] \in TrackerValues(k) } : S \in SUBSET TrackerKeys }

MediaEntry(k, t, u) == [kind |-> k, tag |-> t, url |-> u]

MediaEntries ==
    { MediaEntry("dflt", "videoURL", MediaUrl("up", "m3u8", <<>>)),
      MediaEntry("dflt", "videoURL", MediaUrl("down", "m3u8", <<>>)),
      MediaEntry("dflt", "videoURL", MediaUrl("up", "f4m", <<>>)),
      MediaEntry("alt", "videoURL",
                 MediaUrl("up", "f4m", << <<"hdcore", "2.0">>, <<"a", "1">>, <<"a", "2">> >>)),
      MediaEntry("alt", "audioURL",
                 MediaUrl("down", "f4m", << <<"plugin", "x">>, <<"b", "">> >>)),
      MediaEntry("dflt", "audioURL", MediaUrl("up", "smil", <<>>)),
      MediaEntry("alt", "videoURL", MediaUrl("down", "smil", <<>>)),
      MediaEntry("dflt", "audioURL", MediaUrl("up", "mp3", << <<"a", "1">> >>)),
      MediaEntry("alt", "videoURL", MediaUrl("up", "", <<>>)),
      MediaEntry("dflt", "videoURL", MediaUrl("down", "", <<>>)),
      MediaEntry("extra", "videoURL", MediaUrl("up", "mp4", <<>>)),
      MediaEntry("dflt", "previewImage", MediaUrl("up", "jpg", <<>>)) }

\* A JSON object has each key once: the (variant, role) pairs are distinct
\* and the roles of one variant are adjacent.
WellFormedMedia(s) ==
    /\ \A i, j \in DOMAIN s : (i # j) => (s[i].kind # s[j].kind \/ s[i].tag # s[j].tag)
    /\ \A i, j, k \in DOMAIN s : (i < j /\ j < k /\ s[i].kind = s[k].kind) => s[j].kind = s[i].kind

MediaSeqs == { s \in SeqsUpTo(MediaEntries, MaxMedia) : WellFormedMedia(s) }

CaptionValues == {None, "", "http://ondemand-ww.wdr.de/1378846.xml"}

MediaResources ==
    { [media |-> s] : s \in MediaSeqs }
    \cup { [media |-> s, captionURL |-> c] : s \in MediaSeqs, c \in CaptionValues }

JsonDoc(d) == [kind |-> "json", doc |-> d]

Responses ==
    { [kind |-> "error", doc |-> <<>>], [kind |-> "garbage", doc |-> <<>>], JsonDoc(<<>>) }
    \cup { JsonDoc("trackerData" :> t) : t \in TrackerDatas }
    \cup { JsonDoc("mediaResource" :> m) : m \in MediaResources }
    \cup { JsonDoc(("trackerData" :> t) @@ ("mediaResource" :> m)) :
              t \in TrackerDatas, m \in MediaResources }

\* The answers used when whole pages are extracted.
DirectMedia ==
    [media |-> <<MediaEntry("dflt", "videoURL", MediaUrl("up", "mp4", <<>>))>>,
     captionURL |-> "http://ondemand-ww.wdr.de/1378846.xml"]

BrokenHlsMedia ==
    [media |-> <<MediaEntry("dflt", "videoURL", MediaUrl("down", "m3u8", <<>>)),
                 MediaEntry("alt", "videoURL", MediaUrl("up", "mp4", <<>>))>>]

FullTracker ==
    [trackerClipId |-> "mdb-1378846", trackerClipTitle |-> "Lokalzeit am Samstag",
     trackerClipSubcategory |-> "Lokalzeit", trackerClipAirTime |-> "20.05.2017 19:30"]

PageResponses ==
    { [kind |-> "error", doc |-> <<>>],
      [kind |-> "garbage", doc |-> <<>>],
      JsonDoc("mediaResource" :> DirectMedia),
      JsonDoc(("trackerData" :> [trackerClipId |-> "mdb-1378846"])
              @@ ("mediaResource" :> DirectMedia)),
      JsonDoc(("trackerData" :> FullTracker) @@ ("mediaResource" :> BrokenHlsMedia)),
      JsonDoc(("trackerData" :> FullTracker) @@ ("mediaResource" :> DirectMedia)),
      JsonDoc(("trackerData" :> [trackerClipTitle |-> "COSMO Livestream"])
              @@ ("mediaResource" :> DirectMedia)),
      JsonDoc(("trackerData" :> [trackerClipTitle |-> "Achterbahn",
                                 trackerClipAirTime |-> "20.05.2017 19:30"])
              @@ ("mediaResource" :> [media |-> DirectMedia.media])) }

(***************************************************************************)
(* WDRIE._real_extract as a state machine.  pc is the position in it:      *)
(*   start -> page -> located -> (multi ->) done                           *)
(* `fetched` is the log of manifest requests: the URL asked for, the       *)
(* answer, and the media requests made while resolving it.                 *)
(***************************************************************************)
EmptyPage == [elems |-> <<>>, meta |-> <<>>]

NoUrls == [is_none |-> TRUE, urls |-> <<>>]

Init ==
    /\ url \in PageUrls
    /\ webpage = EmptyPage
    /\ display_id = None
    /\ jsonp_urls = NoUrls
    /\ entries = <<>>
    /\ fetched = <<>>
    /\ result = NoResult
    /\ pc = "start"

\* Lines 211-215, the page arrives.
DownloadWebpage ==
    /\ pc = "start"
    /\ \E page \in Pages : webpage' = page
    /\ display_id' = MatchValidUrl(url).display_id
    /\ pc' = "page"
    /\ UNCHANGED <<url, jsonp_urls, entries, fetched, result>>

\* Lines 211-215, the download fails.
DownloadWebpageFails ==
    /\ pc = "start"
    /\ display_id' = MatchValidUrl(url).display_id
    /\ result' = Raised("FetchError")
    /\ pc' = "done"
    /\ UNCHANGED <<url, webpage, jsonp_urls, entries, fetched>>

\* Line 217.
LocateReferences ==
    /\ pc = "page"
    /\ LET r == ExtractWdrJsonpUrls(webpage) IN
       IF r.raised # None
       THEN /\ result' = Raised(r.raised)
            /\ pc' = "done"
            /\ UNCHANGED jsonp_urls
       ELSE /\ jsonp_urls' = [is_none |-> r.is_none, urls |-> r.urls]
            /\ pc' = "located"
            /\ UNCHANGED result
    /\ UNCHANGED <<url, webpage, display_id, entries, fetched>>

\* Lines 219-231.
NoReferences ==
    /\ pc = "located"
    /\ jsonp_urls.is_none \/ jsonp_urls.urls = <<>>
    /\ result' = NoReferencesResult(webpage, MatchValidUrl(url).page_url, display_id)
    /\ pc' = "done"
    /\ UNCHANGED <<url, webpage, display_id, jsonp_urls, entries, fetched>>

\* Lines 233-235.
StartPlaylist ==
    /\ pc = "located"
    /\ Len(jsonp_urls.urls) > 1
    /\ display_id' = MatchValidUrl(url).display_id_maus
    /\ entries' = <<>>
    /\ pc' = "multi"
    /\ UNCHANGED <<url, webpage, jsonp_urls, fetched, result>>

ResolveNext_tolerant ==
    /\ pc = "multi"
    /\ Len(entries) < Len(jsonp_urls.urls)
    /\ \E resp \in PageResponses :
         LET jsonp_url == jsonp_urls.urls[Len(entries) + 1]
             r == ExtractVideo(resp, display_id) IN
         /\ fetched' = Append(fetched, [url |-> jsonp_url, resp |-> resp, uses |-> r.uses])
         /\ entries' = Append(entries, r.info)
         /\ UNCHANGED <<result, pc>>
    /\ UNCHANGED <<url, webpage, display_id, jsonp_urls>>

\* Lines 236-239, one iteration of the comprehension.
ResolveNext ==
    /\ pc = "multi"
    /\ Len(entries) < Len(jsonp_urls.urls)
    /\ \E resp \in PageResponses :
         LET jsonp_url == jsonp_urls.urls[Len(entries) + 1]
             r == ExtractVideo(resp, display_id) IN
         /\ fetched' = Append(fetched, [url |-> jsonp_url, resp |-> resp, uses |-> r.uses])
         /\ IF r.status = "ok"
            THEN /\ entries' = Append(entries, r.info)
                 /\ UNCHANGED <<result, pc>>
            ELSE /\ result' = Raised(r.error)
                 /\ pc' = "done"
                 /\ UNCHANGED entries
    /\ UNCHANGED <<url, webpage, display_id, jsonp_urls>>

\* Line 240.
FinishPlaylist ==
    /\ pc = "multi"
    /\ Len(entries) = Len(jsonp_urls.urls)
    /\ result' = Returned(PlaylistResult(entries, display_id))
    /\ pc' = "done"
    /\ UNCHANGED <<url, webpage, display_id, jsonp_urls, entries, fetched>>

\* Lines 242-261.
ResolveSingle ==
    /\ pc = "located"
    /\ ~jsonp_urls.is_none
    /\ Len(jsonp_urls.urls) = 1
    /\ \E resp \in PageResponses :
         LET r == ExtractVideo(resp, display_id) IN
         /\ fetched' = Append(fetched,
                           [url |-> jsonp_urls.urls[1], resp |-> resp, uses |-> r.uses])
         /\ result' = IF r.status = "ok"
                      THEN Returned(PostProcess(r.info, MatchValidUrl(url).type, webpage))
                      ELSE Raised(r.error)
    /\ pc' = "done"
    /\ UNCHANGED <<url, webpage, display_id, jsonp_urls, entries>>

Next ==
    \/ DownloadWebpage
    \/ DownloadWebpageFails
    \/ LocateReferences
    \/ NoReferences
    \/ StartPlaylist
    \/ ResolveNext
    \/ FinishPlaylist
    \/ ResolveSingle

Spec == Init /\ [][Next]_vars

(***************************************************************************)
(* The manifest resolver on its own: one call of                           *)
(* _extract_wdr_video_from_jsonp_url with any answer of the network.       *)
(***************************************************************************)
InitResolve ==
    /\ url \in PageUrls
    /\ webpage = EmptyPage
    /\ display_id \in {MatchValidUrl(u).display_id : u \in PageUrls}
    /\ jsonp_urls = [is_none |-> FALSE, urls |-> <<"u1">>]
    /\ entries = <<>>
    /\ fetched = <<>>
    /\ result = NoResult
    /\ pc = "call"

ResolveCall ==
    /\ pc = "call"
    /\ \E resp \in Responses :
         LET r == ExtractVideo(resp, display_id) IN
         /\ fetched' = <<[url |-> jsonp_urls.urls[1], resp |-> resp, uses |-> r.uses]>>
         /\ result' = IF r.status = "ok" THEN Returned(r.info) ELSE Raised(r.error)
    /\ pc' = "returned"
    /\ UNCHANGED <<url, webpage, display_id, jsonp_urls, entries>>

NextResolve == ResolveCall

SpecResolve == InitResolve /\ [][NextResolve]_vars

(***************************************************************************)
(* Vocabulary of the properties, read off the inputs and the logs.         *)
(***************************************************************************)
RECURSIVE MarkersOf(_)
MarkersOf(elems) ==
    IF elems = <<>> THEN <<>>
    ELSE (IF Head(elems).tag = "marker" THEN <<Head(elems)>> ELSE <<>>)
         \o MarkersOf(Tail(elems))

PageMarkers == MarkersOf(webpage.elems)

AnchorCount == Cardinality({i \in DOMAIN webpage.elems : webpage.elems[i].tag = "anchor"})

IsPlaylist(v) == "_type" \in DOMAIN v /\ v["_type"] = "playlist"

SingleReturned == pc = "done" /\ Len(PageMarkers) = 1 /\ result.status = "ok"

FirstTracker == fetched[1].resp.doc["trackerData"]

\* The manifest answers that cannot be resolved: transport failure,
\* undecodable text, trackerData, mediaResource or trackerClipTitle missing.
Unresolvable(resp) ==
    \/ resp.kind \in {"error", "garbage"}
    \/ "trackerData" \notin DOMAIN resp.doc
    \/ "mediaResource" \notin DOMAIN resp.doc
    \/ "trackerClipTitle" \notin DOMAIN resp.doc["trackerData"]

\* C1: on a page with exactly one reference marker, what _real_extract
\* returns is a single descriptor, not a playlist, whose id is the
\* manifest's trackerClipId if it has one and the display id of the URL
\* otherwise.
C1_SingleItemId ==
    SingleReturned =>
        /\ ~IsPlaylist(result.value)
        /\ result.value["id"] =
               IF "trackerClipId" \in DOMAIN FirstTracker
               THEN FirstTracker["trackerClipId"]
               ELSE MatchValidUrl(url).display_id

W_C1_FallbackId ==
    /\ SingleReturned
    /\ "trackerClipId" \notin DOMAIN FirstTracker
    /\ result.value["id"] = "lokalzeit/video-206"

\* C2: on a page with more than one reference marker, what _real_extract
\* returns is a playlist with one entry per marker: entry k is the
\* descriptor resolved from the manifest of the k-th marker of the
\* document, repeated references included.
C2_PlaylistPerMarker ==
    (pc = "done" /\ Len(PageMarkers) > 1 /\ result.status = "ok") =>
        /\ IsPlaylist(result.value)
        /\ Len(result.value["entries"]) = Len(PageMarkers)
        /\ Len(fetched) = Len(PageMarkers)
        /\ \A k \in DOMAIN PageMarkers :
              LET td == fetched[k].resp.doc["trackerData"]
                  e == result.value["entries"][k] IN
              /\ fetched[k].url = PageMarkers[k].ref
              /\ e["title"] = <<td["trackerClipTitle"]>>
              /\ e["upload_date"] =
                     (IF "trackerClipAirTime" \in DOMAIN td THEN "20170520" ELSE None)
              /\ DOMAIN e["subtitles"] =
                     (IF "captionURL" \in DOMAIN fetched[k].resp.doc["mediaResource"]
                      THEN {"de"} ELSE {})

W_C2_RepeatedReference ==
    /\ pc = "done"
    /\ result.status = "ok"
    /\ Len(PageMarkers) = 3
    /\ PageMarkers[1].ref = PageMarkers[3].ref
    /\ PageMarkers[1].ref # PageMarkers[2].ref
    /\ IsPlaylist(result.value)
    /\ result.value["entries"][1]["title"] # result.value["entries"][3]["title"]

\* C3: on a page without reference markers, _real_extract fetches no
\* manifest; without matching anchors it raises the expected 'No
\* downloadable streams found', with at least one it returns a playlist of
\* one lazy reference per anchor.
CE_C3_NoReferences ==
    [][(pc = "located" /\ Len(PageMarkers) = 0) =>
          /\ fetched' = <<>>
          /\ IF AnchorCount = 0
             THEN result'.status = "raise" /\ result'.error = "NoContent"
             ELSE /\ result'.status = "ok"
                  /\ IsPlaylist(result'.value)
                  /\ Len(result'.value["entries"]) = AnchorCount]_vars

\* C4: the classification of a raw media URL never aborts the resolution:
\* a failed expansion of an .m3u8, .f4m or .smil URL is swallowed.
CE_C4_ExpansionSwallowed ==
    pc = "returned" => result.error # "ExpansionError"

\* C5: on the single-item path of a page that is not live, when the
\* manifest has no trackerClipAirTime the upload_date is the date of the
\* page's DC.Date meta tag, and None only if the page has no such tag.
CE_C5_DateFallback ==
    (SingleReturned /\ MatchValidUrl(url).type # "live"
       /\ "trackerClipAirTime" \notin DOMAIN FirstTracker) =>
        result.value["upload_date"] =
            (IF "DC.Date" \in DOMAIN webpage.meta THEN "20170521" ELSE None)

\* C6: on the single-item path, a page whose type segment is 'live' gives
\* upload_date None and is_live true whatever the manifest's air time, any
\* other page gives is_live false; the description is the content of the
\* page's Description meta tag.
C6_LiveOverlay ==
    SingleReturned =>
        /\ IF url.type = "live"
           THEN result.value["upload_date"] = None /\ result.value["is_live"] = TRUE
           ELSE result.value["is_live"] = FALSE
        /\ result.value["description"] =
               (IF "Description" \in DOMAIN webpage.meta THEN "text" ELSE None)

W_C6_LiveWithAirTime ==
    /\ SingleReturned
    /\ url.type = "live"
    /\ "trackerClipAirTime" \in DOMAIN FirstTracker
    /\ result.value["is_live"] = TRUE
    /\ "Description" \in DOMAIN webpage.meta

ResolvedOk == pc = "returned" /\ result.status = "ok"

FirstMedia == fetched[1].resp.doc["mediaResource"]

OneGermanTrack(subs, u) ==
    /\ DOMAIN subs = {"de"}
    /\ subs["de"] = <<[url |-> u, ext |-> "ttml"]>>

\* C7 as stated: a mediaResource with a captionURL field, whatever its
\* value, gives exactly the subtitles {'de': [{url: captionURL, ext:
\* 'ttml'}]}; one without the field gives an empty map.
CE_C7_AnyCaptionValue ==
    ResolvedOk =>
        IF "captionURL" \in DOMAIN FirstMedia
        THEN OneGermanTrack(result.value["subtitles"], FirstMedia["captionURL"])
        ELSE DOMAIN result.value["subtitles"] = {}

\* C7 amended: a captionURL that is a non-empty string gives exactly the
\* subtitles {'de': [{url: captionURL, ext: 'ttml'}]}; a missing, null or
\* empty captionURL gives an empty map.
C7_NonEmptyCaption ==
    ResolvedOk =>
        IF "captionURL" \in DOMAIN FirstMedia /\ FirstMedia["captionURL"] \notin {None, ""}
        THEN OneGermanTrack(result.value["subtitles"], FirstMedia["captionURL"])
        ELSE DOMAIN result.value["subtitles"] = {}

W_C7_Caption ==
    /\ ResolvedOk
    /\ "captionURL" \in DOMAIN FirstMedia
    /\ "de" \in DOMAIN result.value["subtitles"]

QueryValues(q, key) == SelectSeq(q, LAMBDA p : p[1] = key)

RECURSIVE ClassifiedOf(_)
ClassifiedOf(media) ==
    IF media = <<>> THEN <<>>
    ELSE (IF Head(media).kind \in {"dflt", "alt"} /\ Head(media).tag \in {"videoURL", "audioURL"}
          THEN <<Head(media).url>> ELSE <<>>)
         \o ClassifiedOf(Tail(media))

\* C8: the URL handed to the f4m expansion is the raw URL with the query
\* parameters hdcore=3.2.0 and plugin=aasp-3.2.0.77.18, whatever the query
\* of the raw URL; a URL of any other kind is handed on as it is.
C8_F4mQuery ==
    (pc = "returned" /\ fetched[1].uses # <<>>) =>
        LET raw == ClassifiedOf(FirstMedia["media"])
            uses == fetched[1].uses IN
        /\ Len(uses) <= Len(raw)
        /\ \A k \in DOMAIN uses :
              IF raw[k].ext = "f4m"
              THEN /\ uses[k].op = "f4m"
                   /\ uses[k].url.host = raw[k].host
                   /\ uses[k].url.ext = raw[k].ext
                   /\ QueryValues(uses[k].url.query, "hdcore") = << <<"hdcore", "3.2.0">> >>
                   /\ QueryValues(uses[k].url.query, "plugin")
                          = << <<"plugin", "aasp-3.2.0.77.18">> >>
              ELSE uses[k].op # "f4m" /\ uses[k].url = raw[k]

W_C8_HdcoreOverridden ==
    /\ pc = "returned"
    /\ \E k \in DOMAIN fetched[1].uses :
          /\ fetched[1].uses[k].op = "f4m"
          /\ ClassifiedOf(FirstMedia["media"])[k].query
                 = << <<"hdcore", "2.0">>, <<"a", "1">>, <<"a", "2">> >>

\* C9: on a page with more than one reference marker the manifests are
\* requested one at a time in document order, and a manifest that cannot be
\* resolved is the last one requested: _real_extract raises, returns no
\* playlist, and requests no manifest of a later reference.
C9_FailureAborts ==
    Len(PageMarkers) > 1 =>
        /\ Len(fetched) <= Len(entries) + 1
        /\ \A k \in DOMAIN fetched :
              /\ k <= Len(PageMarkers)
              /\ fetched[k].url = PageMarkers[k].ref
              /\ Unresolvable(fetched[k].resp) =>
                    /\ k = Len(fetched)
                    /\ pc = "done"
                    /\ result.status = "raise"
                    /\ result.error # None
                    /\ ~IsPlaylist(result.value)

W_C9_SecondFails ==
    /\ pc = "done"
    /\ Len(PageMarkers) = 3
    /\ Len(fetched) = 2
    /\ Len(entries) = 1
    /\ Unresolvable(fetched[2].resp)
    /\ result.status = "raise"

HasMarker(j) == \E k \in DOMAIN PageMarkers : PageMarkers[k].json = j

\* C10 as stated: an unparsable reference fragment aborts its own item
\* only; the references of the page's other markers are still resolved.
CE_C10_OthersResolved ==
    (pc = "done" /\ HasMarker("garbage") /\ HasMarker("obj")) => fetched # <<>>

\* C10 amended: an unparsable reference fragment aborts the whole
\* extraction: _real_extract raises, and no reference of the page is
\* resolved, whatever the page's other markers are.
C10_MalformedAbortsPage ==
    HasMarker("garbage") =>
        /\ fetched = <<>>
        /\ entries = <<>>
        /\ pc \in {"page", "done"}
        /\ pc = "done" =>
              /\ result.status = "raise"
              /\ result.error \in {"MalformedMetadata", "MissingField"}
              /\ ~HasMarker("nokey") => result.error = "MalformedMetadata"

W_C10_GoodAndMalformed ==
    /\ pc = "done"
    /\ HasMarker("garbage")
    /\ HasMarker("obj")
    /\ PageMarkers[1].json = "obj"
    /\ result.error = "MalformedMetadata"

====
